---- MODULE Spec2Model ----
(***************************************************************************)
(* Model of engine/renderer/renderer.go of alaska-engine: the process-wide *)
(* renderer singleton, its sync.Once guarded construction and the thin     *)
(* delegation of the frame lifecycle to a RendererBackend.                 *)
(*                                                                         *)
(* The backend (vulkan) is an external collaborator: every call to it is   *)
(* recorded in `log` and its result is chosen nondeterministically.        *)
(***************************************************************************)
EXTENDS Integers, Sequences, FiniteSets, TLC

(* ------------------------------ bounds --------------------------------- *)
\* goroutines that may call Initialize concurrently
NCallers == 2
\* longest recorded sequence of backend calls
MaxCalls == 4
\* RenderView instances the application has created
NViews == 2
\* RenderPassConfig values whose clear flags are combined
NPasses == 2

(* ------------------------------ inputs --------------------------------- *)
Threads == 1 .. NCallers
\* the render thread of spec section 5: the one goroutine issuing frame calls
MainThread == 1
\* appName values (opaque)
AppNames == {0}
\* DeltaTime values (float64 in the source, milliseconds here)
Deltas == {16, 33}
\* width / height values (uint16)
Widths == {800, 1024}
Heights == {600}
ViewIds == 1 .. NViews
\* the outcome of a backend method: it returns nil or its own error value
Outcomes == {"ok", "fail"}
\* the error value backend method op returns when it fails
ErrOf(op) ==
  CASE op = "Initialize" -> "errInitialize"
    [] op = "Shutdow"    -> "errShutdow"
    [] op = "Resized"    -> "errResized"
    [] op = "BeginFrame" -> "errBeginFrame"
    [] op = "EndFrame"   -> "errEndFrame"
\* what backend method op returns: the nil error is "nil"
Result(op, outcome) == IF outcome = "ok" THEN "nil" ELSE ErrOf(op)
\* the nil *Renderer
Nil == [backend |-> 0]

\* declared view lists of a frame: sequences of distinct views
ViewLists == {<<>>} \cup {<<v>> : v \in ViewIds}
             \cup {<<v, w>> : <<v, w>> \in {x \in ViewIds \X ViewIds : x[1] # x[2]}}
\* the frame submitted by the application: DeltaTime plus the views to render
RenderPackets == [DeltaTime : Deltas, Views : ViewLists]

(* --------------------------- clear flags ------------------------------- *)
RENDERPASS_CLEAR_NONE_FLAG == 0
RENDERPASS_CLEAR_COLOUR_BUFFER_FLAG == 1
RENDERPASS_CLEAR_DEPTH_BUFFER_FLAG == 2
RENDERPASS_CLEAR_STENCIL_BUFFER_FLAG == 3

PassIds == 1 .. NPasses
\* the kinds of clearing a render pass can ask for
ClearKinds == {"colour", "depth", "stencil"}
\* the RenderpassClearFlag constant of each kind
FlagOf(kind) ==
  CASE kind = "colour"  -> RENDERPASS_CLEAR_COLOUR_BUFFER_FLAG
    [] kind = "depth"   -> RENDERPASS_CLEAR_DEPTH_BUFFER_FLAG
    [] kind = "stencil" -> RENDERPASS_CLEAR_STENCIL_BUFFER_FLAG

\* Go's a | b and a & b on unsigned integers
RECURSIVE BitOr(_, _)
BitOr(a, b) ==
  IF a = 0 THEN b
  ELSE IF b = 0 THEN a
  ELSE (IF a % 2 = 1 \/ b % 2 = 1 THEN 1 ELSE 0) + 2 * BitOr(a \div 2, b \div 2)

RECURSIVE BitAnd(_, _)
BitAnd(a, b) ==
  IF a = 0 \/ b = 0 THEN 0
  ELSE (IF a % 2 = 1 /\ b % 2 = 1 THEN 1 ELSE 0) + 2 * BitAnd(a \div 2, b \div 2)

\* the flags of the kinds in `kinds` combined with |, starting from NONE, as
\* stored in the uint8 ClearFlags field of a pass
CombineFlags(kinds) ==
  LET part(kind) == IF kind \in kinds THEN FlagOf(kind) ELSE RENDERPASS_CLEAR_NONE_FLAG
  IN  BitOr(BitOr(BitOr(RENDERPASS_CLEAR_NONE_FLAG, part("colour")), part("depth")),
            part("stencil")) % 256

VARIABLES
  wanted,     \* per pass config: the kinds of clearing it asks for
  clearFlags, \* per pass config: its ClearFlags field
  once,       \* initRenderer: [done, m] (m = goroutine holding the mutex, 0 = free)
  renderer,   \* the package variable `renderer`: Nil or [backend |-> instance]
  nBackends,  \* number of vulkan.New calls so far (instances are numbered 1, 2, ..)
  pc,         \* position of each goroutine inside Initialize
  built,      \* per goroutine: the backend its vulkan.New returned (0 = none)
  log,        \* calls received by backend instances, in order
  last        \* the most recent API call that returned (or panicked); for a
              \* DrawFrame, `packet` is *renderPacket as the call leaves it

passVars == <<wanted, clearFlags>>
vars == <<once, renderer, nBackends, pc, built, log, last, wanted, clearFlags>>

NoCall == [op |-> "none", arg |-> <<>>, ret |-> "nil", first |-> 0, t |-> 0]

\* the package variables of renderer.go before any call
InitRenderer ==
  /\ once = [done |-> FALSE, m |-> 0]
  /\ renderer = Nil
  /\ nBackends = 0
  /\ pc = [t \in Threads |-> "idle"]
  /\ built = [t \in Threads |-> 0]
  /\ log = <<>>
  /\ last = NoCall

\* no pass asks for any clearing: every ClearFlags is the zero value
Init ==
  /\ InitRenderer
  /\ wanted = [p \in PassIds |-> {}]
  /\ clearFlags = [p \in PassIds |-> RENDERPASS_CLEAR_NONE_FLAG]

\* pass configs asking for any subset of the kinds of clearing, not combined yet
InitFlags ==
  /\ InitRenderer
  /\ wanted \in [PassIds -> SUBSET ClearKinds]
  /\ clearFlags = [p \in PassIds |-> RENDERPASS_CLEAR_NONE_FLAG]

(* ------------------------------ helpers -------------------------------- *)
\* a nil-pointer dereference has killed the process
Crashed == \E t \in Threads : pc[t] = "panicked"
InFlight == Cardinality({t \in Threads : pc[t] \notin {"idle", "panicked"}})

\* one call on renderer.backend, made by API function api, as the backend
\* instance that receives it records it
BackendCall(api, op, arg, res) ==
  [api |-> api, op |-> op, arg |-> arg, inst |-> renderer.backend, res |-> res]

\* renderer.backend.X(...) with renderer == nil: runtime panic, no backend call
Panic(t, op, arg) ==
  /\ pc' = [pc EXCEPT ![t] = "panicked"]
  /\ last' = [op |-> op, arg |-> arg, ret |-> "panic", first |-> Len(log), t |-> t]
  /\ UNCHANGED <<once, renderer, nBackends, built, log>>
  /\ UNCHANGED passVars

\* return renderer.backend.X(...): one backend call, whose result is returned
Delegate(t, api, op, arg) ==
  /\ Len(log) < MaxCalls
  /\ \E o \in Outcomes :
       /\ log' = Append(log, BackendCall(api, op, arg, Result(op, o)))
       /\ last' = [op |-> api, arg |-> arg, ret |-> Result(op, o),
                   first |-> Len(log), t |-> t]
  /\ UNCHANGED <<once, renderer, nBackends, pc, built>>
  /\ UNCHANGED passVars

(* ------------------------------ Initialize ----------------------------- *)
\* an Initialize that constructs on every call, with no Once around it
OnceDoEveryCall(t) ==
  /\ ~Crashed
  /\ pc[t] = "idle"
  /\ Len(log) + InFlight < MaxCalls
  /\ pc' = [pc EXCEPT ![t] = "f"]
  /\ UNCHANGED <<once, renderer, nBackends, built, log, last>>
  /\ UNCHANGED passVars

\* Initialize is entered; initRenderer.Do: fast path, atomic load of done
OnceDo(t) ==
  /\ ~Crashed
  /\ pc[t] = "idle"
  /\ Len(log) + InFlight < MaxCalls
  /\ pc' = [pc EXCEPT ![t] = IF once.done THEN "call" ELSE "slow"]
  /\ UNCHANGED <<once, renderer, nBackends, built, log, last>>
  /\ UNCHANGED passVars

\* a Once without mutual exclusion
OnceDoSlowNoLock(t) ==
  /\ pc[t] = "slow"
  /\ pc' = [pc EXCEPT ![t] = IF once.done THEN "call" ELSE "f"]
  /\ UNCHANGED <<once, renderer, nBackends, built, log, last>>
  /\ UNCHANGED passVars

\* doSlow: m.Lock(); if done is already set, unlock and return, else run f
OnceDoSlow(t) ==
  /\ pc[t] = "slow"
  /\ once.m = 0
  /\ IF once.done
       THEN /\ pc' = [pc EXCEPT ![t] = "call"]
            /\ UNCHANGED once
       ELSE /\ pc' = [pc EXCEPT ![t] = "f"]
            /\ once' = [once EXCEPT !.m = t]
  /\ UNCHANGED <<renderer, nBackends, built, log, last>>
  /\ UNCHANGED passVars

\* f, first half: vulkan.New(platform) constructs a backend
OnceF(t) ==
  /\ pc[t] = "f"
  /\ nBackends' = nBackends + 1
  /\ built' = [built EXCEPT ![t] = nBackends + 1]
  /\ pc' = [pc EXCEPT ![t] = "assign"]
  /\ UNCHANGED <<once, renderer, log, last>>
  /\ UNCHANGED passVars

\* f, second half: renderer = &Renderer{backend: <the new backend>}
OnceAssign(t) ==
  /\ pc[t] = "assign"
  /\ renderer' = [backend |-> built[t]]
  /\ pc' = [pc EXCEPT ![t] = "unlock"]
  /\ UNCHANGED <<once, nBackends, built, log, last>>
  /\ UNCHANGED passVars

\* deferred: done.Store(1); m.Unlock(); Do returns
OnceUnlock(t) ==
  /\ pc[t] = "unlock"
  /\ once' = [done |-> TRUE, m |-> IF once.m = t THEN 0 ELSE once.m]
  /\ pc' = [pc EXCEPT ![t] = "call"]
  /\ UNCHANGED <<renderer, nBackends, built, log, last>>
  /\ UNCHANGED passVars

\* return renderer.backend.Initialize(appName)
InitializeReturn(t) ==
  /\ pc[t] = "call"
  /\ \E appName \in AppNames, o \in Outcomes :
       LET res == Result("Initialize", o) IN
       /\ log' = Append(log, BackendCall("Initialize", "Initialize", <<appName>>, res))
       /\ last' = [op |-> "Initialize", arg |-> <<appName>>, ret |-> res,
                   first |-> Len(log), t |-> t]
  /\ pc' = [pc EXCEPT ![t] = "idle"]
  /\ UNCHANGED <<once, renderer, nBackends, built>>
  /\ UNCHANGED passVars

Initialize(t) ==
  \/ OnceDo(t)
  \/ OnceDoSlow(t)
  \/ OnceF(t)
  \/ OnceAssign(t)
  \/ OnceUnlock(t)
  \/ InitializeReturn(t)

(* ------------------------- frame lifecycle ----------------------------- *)
\* the render thread is between two API calls
Ready(t) == ~Crashed /\ pc[t] = "idle"

Shutdown(t) ==
  /\ Ready(t)
  /\ IF renderer = Nil
       THEN Panic(t, "Shutdown", <<>>)
       ELSE Delegate(t, "Shutdown", "Shutdow", <<>>)

BeginFrame(t, deltaTime) ==
  /\ Ready(t)
  /\ IF renderer = Nil
       THEN Panic(t, "BeginFrame", <<deltaTime>>)
       ELSE Delegate(t, "BeginFrame", "BeginFrame", <<deltaTime>>)

EndFrame(t, deltaTime) ==
  /\ Ready(t)
  /\ IF renderer = Nil
       THEN Panic(t, "EndFrame", <<deltaTime>>)
       ELSE Delegate(t, "EndFrame", "EndFrame", <<deltaTime>>)

OnResize(t, width, height) ==
  /\ Ready(t)
  /\ IF renderer = Nil
       THEN Panic(t, "OnResize", <<width, height>>)
       ELSE Delegate(t, "OnResize", "Resized", <<width, height>>)

\* a DrawFrame that goes on to EndFrame although BeginFrame failed
DrawFrameCallsNoEarlyReturn(renderPacket, b, e) ==
  <<BackendCall("DrawFrame", "BeginFrame", <<renderPacket.DeltaTime>>, Result("BeginFrame", b)),
    BackendCall("DrawFrame", "EndFrame", <<renderPacket.DeltaTime>>, Result("EndFrame", e))>>

\* a DrawFrame that hands EndFrame a zero delta instead of the packet's
DrawFrameCallsZeroDelta(renderPacket, b, e) ==
  LET begin == BackendCall("DrawFrame", "BeginFrame", <<renderPacket.DeltaTime>>,
                           Result("BeginFrame", b))
      end   == BackendCall("DrawFrame", "EndFrame", <<0>>, Result("EndFrame", e))
  IN  IF b # "ok" THEN <<begin>> ELSE <<begin, end>>

\* a DrawFrame that tries BeginFrame a second time when it failed
DrawFrameCallsRetry(renderPacket, b, e) ==
  LET begin == BackendCall("DrawFrame", "BeginFrame", <<renderPacket.DeltaTime>>,
                           Result("BeginFrame", b))
      end   == BackendCall("DrawFrame", "EndFrame", <<renderPacket.DeltaTime>>,
                           Result("EndFrame", e))
  IN  IF b # "ok" THEN <<begin, begin>> ELSE <<begin, end>>

\* the backend calls one DrawFrame makes, given the outcomes of BeginFrame (b)
\* and EndFrame (e): EndFrame is reached only when BeginFrame returned nil
DrawFrameCalls(renderPacket, b, e) ==
  LET begin == BackendCall("DrawFrame", "BeginFrame", <<renderPacket.DeltaTime>>,
                           Result("BeginFrame", b))
      end   == BackendCall("DrawFrame", "EndFrame", <<renderPacket.DeltaTime>>,
                           Result("EndFrame", e))
  IN  IF b # "ok" THEN <<begin>> ELSE <<begin, end>>

\* a DrawFrame that logs the EndFrame error and returns nil
DrawFrameRetSwallowEnd(b, e) ==
  IF b # "ok" THEN Result("BeginFrame", b) ELSE "nil"

\* what DrawFrame returns: the first non-nil error, nil when there is none
DrawFrameRet(b, e) ==
  IF b # "ok" THEN Result("BeginFrame", b)
  ELSE IF e # "ok" THEN Result("EndFrame", e)
  ELSE "nil"

\* a DrawFrame that drops the renderer when a backend call of the frame fails
DrawFrameTearsDown(t, renderPacket) ==
  /\ Ready(t)
  /\ IF renderer = Nil
       THEN Panic(t, "DrawFrame", renderPacket)
       ELSE \E b \in Outcomes, e \in Outcomes :
              LET calls == DrawFrameCalls(renderPacket, b, e) IN
              /\ Len(log) + Len(calls) <= MaxCalls
              /\ log' = log \o calls
              /\ last' = [op |-> "DrawFrame", arg |-> renderPacket,
                          ret |-> DrawFrameRet(b, e), first |-> Len(log), t |-> t,
                          packet |-> renderPacket]
              /\ renderer' = IF DrawFrameRet(b, e) = "nil" THEN renderer ELSE Nil
              /\ UNCHANGED <<once, nBackends, pc, built>>
              /\ UNCHANGED passVars

DrawFrame(t, renderPacket) ==
  /\ Ready(t)
  /\ IF renderer = Nil
       THEN Panic(t, "DrawFrame", renderPacket)
       ELSE \E b \in Outcomes, e \in Outcomes :
              LET calls == DrawFrameCalls(renderPacket, b, e) IN
              /\ Len(log) + Len(calls) <= MaxCalls
              /\ log' = log \o calls
              /\ last' = [op |-> "DrawFrame", arg |-> renderPacket,
                          ret |-> DrawFrameRet(b, e), first |-> Len(log), t |-> t,
                          packet |-> renderPacket]
              /\ UNCHANGED <<once, renderer, nBackends, pc, built>>
              /\ UNCHANGED passVars

(* --------------------------- specifications ---------------------------- *)
\* the single render-thread timeline: one goroutine issues every API call
Next ==
  \/ Initialize(MainThread)
  \/ Shutdown(MainThread)
  \/ \E deltaTime \in Deltas : BeginFrame(MainThread, deltaTime)
  \/ \E deltaTime \in Deltas : EndFrame(MainThread, deltaTime)
  \/ \E width \in Widths, height \in Heights : OnResize(MainThread, width, height)
  \/ \E renderPacket \in RenderPackets : DrawFrame(MainThread, renderPacket)

Spec == Init /\ [][Next]_vars

\* NCallers goroutines calling Initialize concurrently, in any interleaving
NextConc == \E t \in Threads : Initialize(t)

SpecConc == Init /\ [][NextConc]_vars

\* the flags a pass config asks for are OR-ed into its ClearFlags
BuildPass(p) ==
  /\ clearFlags' = [clearFlags EXCEPT ![p] = CombineFlags(wanted[p])]
  /\ UNCHANGED <<once, renderer, nBackends, pc, built, log, last, wanted>>

NextFlags == \E p \in PassIds : BuildPass(p)

SpecFlags == InitFlags /\ [][NextFlags]_vars

(* ------------------------------ claims --------------------------------- *)
\* the backend calls made by the most recent API call
LastCalls == SubSeq(log, last.first + 1, Len(log))
\* the positions of the calls of method op among the calls cs
Positions(cs, op) == {i \in DOMAIN cs : cs[i].op = op}
\* after the first k recorded calls a frame is open: the latest BeginFrame or
\* EndFrame among them is a BeginFrame that returned nil
FrameBegun(k) ==
  \E i \in 1 .. k :
    /\ log[i].op = "BeginFrame"
    /\ log[i].res = "nil"
    /\ \A j \in (i + 1) .. k : log[j].op \notin {"BeginFrame", "EndFrame"}

\* C1: with any number of goroutines inside Initialize, in any interleaving,
\* vulkan.New has run at most once (exactly once as soon as anyone is past the
\* Once), a goroutine past initRenderer.Do sees done set and the renderer
\* assigned, and every backend Initialize call went to that one instance.
C1_ConstructedOnce ==
  /\ nBackends <= 1
  /\ \A t \in Threads :
       pc[t] = "call" => (once.done /\ nBackends = 1 /\ renderer = [backend |-> 1])
  /\ \A i \in DOMAIN log : (nBackends = 1 /\ log[i].inst = 1)

\* two goroutines are past the Once at the same time, both about to call the backend
C1_Witness ==
  \E t \in Threads, u \in Threads :
    t # u /\ pc[t] = "call" /\ pc[u] = "call" /\ nBackends = 1

\* C2: over any sequence of Initialize calls the backend's Initialize is
\* invoked at most once.
C2_BackendInitializedOnce ==
  Cardinality(Positions(log, "Initialize")) <= 1

\* C3: when the first backend Initialize fails, Initialize returns that error,
\* made exactly that one backend call, and no renderer instance is left in place.
C3_FailedInitializeLeavesNoRenderer ==
  (last.op = "Initialize" /\ last.ret # "nil" /\ last.first = 0) =>
     /\ Len(LastCalls) = 1
     /\ LastCalls[1].res = last.ret
     /\ renderer = Nil

\* C4: a BeginFrame issued while a frame is open (a BeginFrame succeeded and no
\* EndFrame followed) fails.
C4_NoFrameNesting ==
  (last.op = "BeginFrame" /\ FrameBegun(last.first)) => last.ret # "nil"

\* C5: an EndFrame issued while no frame is open (no successful BeginFrame
\* since the last EndFrame) fails.
C5_EndFrameNeedsBeginFrame ==
  (last.op = "EndFrame" /\ ~FrameBegun(last.first)) => last.ret # "nil"

\* C6: in DrawFrame, when the backend's BeginFrame returns an error, DrawFrame
\* returns that error and the frame holds no EndFrame call.
C6_BeginFailureSurfaced ==
  last.op = "DrawFrame" =>
    \A i \in Positions(LastCalls, "BeginFrame") :
      LastCalls[i].res # "nil" =>
        /\ last.ret = LastCalls[i].res
        /\ Positions(LastCalls, "EndFrame") = {}

\* a DrawFrame whose BeginFrame failed has returned
C6_Witness ==
  /\ last.op = "DrawFrame"
  /\ Len(LastCalls) = 1
  /\ LastCalls[1].op = "BeginFrame"
  /\ LastCalls[1].res = "errBeginFrame"
  /\ last.ret = "errBeginFrame"

\* C7: in DrawFrame, when BeginFrame succeeded and EndFrame returns an error,
\* DrawFrame returns that error and the failing EndFrame is the last backend
\* call of the frame; DrawFrame returns nil only when the frame is a
\* BeginFrame and an EndFrame that both returned nil.
C7_EndFailureSurfaced ==
  last.op = "DrawFrame" =>
    /\ \A i \in Positions(LastCalls, "EndFrame") :
         LastCalls[i].res # "nil" =>
           (last.ret = LastCalls[i].res /\ i = Len(LastCalls))
    /\ last.ret = "nil" =>
         /\ Positions(LastCalls, "BeginFrame") # {}
         /\ Positions(LastCalls, "EndFrame") # {}
         /\ \A i \in DOMAIN LastCalls : LastCalls[i].res = "nil"

\* a DrawFrame whose BeginFrame succeeded and whose EndFrame failed has returned
C7_Witness ==
  /\ last.op = "DrawFrame"
  /\ Len(LastCalls) = 2
  /\ LastCalls[1].res = "nil"
  /\ LastCalls[2].op = "EndFrame"
  /\ LastCalls[2].res = "errEndFrame"
  /\ last.ret = "errEndFrame"

\* exactly one BeginFrame, first; exactly one EndFrame right after it when it
\* returned nil and none when it failed
OneBracket(cs) ==
  /\ Len(cs) >= 1
  /\ cs[1].op = "BeginFrame"
  /\ Positions(cs, "BeginFrame") = {1}
  /\ IF cs[1].res = "nil"
       THEN Len(cs) = 2 /\ cs[2].op = "EndFrame"
       ELSE Len(cs) = 1

C9_ViewsRenderedInOrder ==
  (last.op = "DrawFrame" /\ last.ret = "nil" /\ Len(last.arg.Views) >= 2) =>
    LET renders == SelectSeq(LastCalls, LAMBDA c : c.op = "OnRender") IN
    /\ Len(renders) = Len(last.arg.Views)
    /\ \A i \in DOMAIN renders : renders[i].arg = <<last.arg.Views[i]>>
    /\ \A i \in Positions(LastCalls, "OnRender") : 1 < i /\ i < Len(LastCalls)

\* C10: an OnResize that returned nil has called the backend's Resized exactly
\* once with its width and height and, after it, OnResize of every view.
C10_ResizeReachesViews ==
  (last.op = "OnResize" /\ last.ret = "nil") =>
    /\ Positions(LastCalls, "Resized") = {1}
    /\ LastCalls[1].arg = last.arg
    /\ \A v \in ViewIds :
         \E i \in Positions(LastCalls, "View.OnResize") :
           i > 1 /\ LastCalls[i].arg[1] = v

\* C11: over any sequence of Shutdown calls the backend's shutdown (Shutdow)
\* is invoked at most once: a second Shutdown is a no-op.
C11_BackendShutDownOnce ==
  Cardinality(Positions(log, "Shutdow")) <= 1

\* the kinds a ClearFlags mask decodes to: those whose flag bits are all set
DecodeFlags(mask) == {kind \in ClearKinds : BitAnd(mask, FlagOf(kind)) = FlagOf(kind)}
\* C12: the clear flags are OR-able bits: once the flags of the kinds a pass
\* asks for have been OR-ed into its ClearFlags (NONE, the zero value, when it
\* asks for none), the mask decodes back to exactly those kinds.
C12_ClearFlagsRoundTrip ==
  \A p \in PassIds :
    clearFlags[p] = CombineFlags(wanted[p]) => DecodeFlags(clearFlags[p]) = wanted[p]

\* the positions of the backend calls with which a DrawFrame lost its frame
LostFrames == {i \in DOMAIN log : log[i].api = "DrawFrame" /\ log[i].res # "nil"}

C14_ShutdownIsTerminal ==
  /\ \A i \in Positions(log, "Shutdow") :
       \A j \in DOMAIN log : j > i => log[j].op \notin {"BeginFrame", "EndFrame"}
  /\ (/\ last.op \in {"BeginFrame", "EndFrame", "DrawFrame"}
      /\ \E i \in Positions(log, "Shutdow") : i <= last.first)
     => last.ret # "nil"

\* C15: once the renderer is assigned, no step of any operation (a repeated
\* Initialize, Shutdown, BeginFrame, EndFrame, OnResize, DrawFrame) replaces
\* or clears it or its backend, no second backend is ever constructed, and
\* every call recorded so far went to the renderer's one backend instance.
C15_OneBackendForLife ==
  [][ /\ renderer # Nil => renderer' = renderer
      /\ nBackends' <= 1
      /\ \A i \in DOMAIN log' :
           log'[i].inst # Nil.backend /\ log'[i].inst = renderer'.backend
    ]_vars

\* a repeated Initialize, a Shutdown and a frame call have all been delegated
\* to the one backend
C15_Witness ==
  /\ Cardinality(Positions(log, "Initialize")) >= 2
  /\ Positions(log, "Shutdow") # {}
  /\ Positions(log, "BeginFrame") # {}
  /\ renderer = [backend |-> 1]
  /\ \A i \in DOMAIN log : log[i].inst = 1

\* C16: every backend call of a DrawFrame (its BeginFrame and its EndFrame)
\* receives the DeltaTime of the packet it was given, and the packet is the
\* same after the call as before it.
C16_DeltaTimeForwarded ==
  (last.op = "DrawFrame" /\ last.ret # "panic") =>
    /\ \A j \in DOMAIN LastCalls : LastCalls[j].arg = <<last.arg.DeltaTime>>
    /\ last.packet = last.arg

\* a DrawFrame of a packet with DeltaTime 33 has made both backend calls
C16_Witness ==
  /\ last.op = "DrawFrame"
  /\ last.arg.DeltaTime = 33
  /\ Len(LastCalls) = 2
  /\ LastCalls[1].op = "BeginFrame" /\ LastCalls[1].arg = <<33>>
  /\ LastCalls[2].op = "EndFrame" /\ LastCalls[2].arg = <<33>>

====
